---- MODULE Spec2Model ----
(***************************************************************************)
(* Model of goodix_gt911_config.py: the GT911 register-image codec         *)
(* (validate_resolution, generate_goodix_config, print_config_details)     *)
(* and the interactive menu that edits a settings dict and loads presets.  *)
(*                                                                         *)
(* A bytearray of length L is a function with domain 0..L-1, so that the   *)
(* offsets of the model are the offsets of the source.  A Python exception *)
(* is the string naming it; "none" means the call returned.                *)
(*                                                                         *)
(* Three specifications:                                                   *)
(*   Spec      one call generate_goodix_config(...) on arguments drawn by  *)
(*             Init, then print_config_details on the returned bytearray;  *)
(*   DecSpec   print_config_details on a bytearray of any length;          *)
(*   MenuSpec  interactive_menu, one action per menu choice.               *)
(***************************************************************************)
EXTENDS Integers, FiniteSets, Sequences, TLC

VARIABLES
    x_max, y_max, touch_threshold, num_touch_points, filter_coefficient,
        \* the arguments of generate_goodix_config
    pc,              \* position of the caller
    raised,          \* exception of the last call, "none" when it returned
    config,          \* the bytearray returned by / handed to the codec
    printed,         \* what the program printed last
    PRESETS,         \* the module-level preset table
    settings,        \* the dict the menu's local name `settings` refers to
    settings_shared, \* TRUE when that dict is the object PRESETS['7inch']
    choices          \* number of menu choices taken so far

vars == <<x_max, y_max, touch_threshold, num_touch_points, filter_coefficient,
          pc, raised, config, printed, PRESETS, settings, settings_shared,
          choices>>

codecVars == <<x_max, y_max, touch_threshold, num_touch_points,
               filter_coefficient>>
menuVars == <<PRESETS, settings, settings_shared, choices>>

(***************************************************************************)
(* Bounds of the model.                                                    *)
(***************************************************************************)
\* print_config_details is tried on bytearrays of length 0 .. 186 + MaxExtra.
MaxExtra == 2
\* The menu loop is followed for at most MaxChoices choices.
MaxChoices == 3

\* Arguments tried for generate_goodix_config.
XValues == {-2, 0, 2, 801, 1024, 4094, 4095, 4096}
YValues == {0, 600, 601, 4094, 4096}
ThresholdValues == {-1, 0, 1, 16, 255, 256, 300}
TouchValues == {-3, 0, 1, 5, 10, 15}
FilterValues == {-1, 0, 4, 255, 256, 260}

\* Numbers typed at a get_validated_input prompt, and preset names typed at
\* the "Enter preset name" prompt (as typed, before .strip().lower()).
TypedNumbers == {0, 7, 802}
TypedNames == {"7inch", " 5INCH ", "WaveShare7", "10inch", ""}

(***************************************************************************)
(* Python built-ins used by the codec.                                     *)
(***************************************************************************)
NoConfig == [i \in {} |-> 0]

ByteLen(b) == Cardinality(DOMAIN b)

\* bytearray(n): n zero bytes.
bytearray(n) == [i \in 0..(n - 1) |-> 0]

py_max(a, b) == IF a >= b THEN a ELSE b
py_min(a, b) == IF a <= b THEN a ELSE b

\* v & 0xFF on a Python int of either sign.
and_0xFF(v) == v % 256

\* ~v on a Python int.
invert(v) == (0 - v) - 1

\* config[i] = v on a bytearray carried in st = [raised, buf]; a raised
\* exception ends the function, so later statements leave st alone.
setitem(st, i, v) ==
    IF st.raised # "none" THEN st
    ELSE IF i \notin DOMAIN st.buf
        THEN [st EXCEPT !.raised = "IndexError"]
    ELSE IF v \notin 0..255
        THEN [st EXCEPT !.raised = "ValueError: byte must be in range(0, 256)"]
    ELSE [st EXCEPT !.buf[i] = v]

pack_into_H_big_endian(st, offset, v) ==
    IF st.raised # "none" THEN st
    ELSE IF v \notin 0..65535 \/ (offset + 1) \notin DOMAIN st.buf
        THEN [st EXCEPT !.raised = "struct.error"]
    ELSE [st EXCEPT !.buf[offset] = v \div 256, !.buf[offset + 1] = v % 256]

\* struct.pack_into('<H', buf, offset, v): unsigned 16 bit, little-endian.
pack_into_H(st, offset, v) ==
    IF st.raised # "none" THEN st
    ELSE IF v \notin 0..65535 \/ (offset + 1) \notin DOMAIN st.buf
        THEN [st EXCEPT !.raised = "struct.error"]
    ELSE [st EXCEPT !.buf[offset] = v % 256, !.buf[offset + 1] = v \div 256]

unpack_from_H_big_endian(b, offset) == b[offset] * 256 + b[offset + 1]

\* struct.unpack_from('<H', buf, offset)[0]
unpack_from_H(b, offset) == b[offset] + 256 * b[offset + 1]

\* sum(b[lo:hi]); a slice stops at the end of the bytearray.  The sum is
\* taken by halving the range, which keeps the evaluation shallow.
RECURSIVE sum_slice(_, _, _)
sum_slice(b, lo, hi) ==
    IF lo >= hi THEN 0
    ELSE IF hi - lo = 1 THEN (IF lo \in DOMAIN b THEN b[lo] ELSE 0)
    ELSE LET mid == lo + ((hi - lo) \div 2)
         IN  sum_slice(b, lo, mid) + sum_slice(b, mid, hi)

(***************************************************************************)
(* validate_resolution: "ok", or the message of the ValueError it raises.  *)
(***************************************************************************)
validate_resolution_no_parity(x, y) ==
    IF ~(0 < x /\ x <= 4095 /\ 0 < y /\ y <= 4095)
        THEN "ValueError: Resolution must be between 1 and 4095"
    ELSE "ok"

validate_resolution(x, y) ==
    IF ~(0 < x /\ x <= 4095 /\ 0 < y /\ y <= 4095)
        THEN "ValueError: Resolution must be between 1 and 4095"
    ELSE IF x % 2 # 0 \/ y % 2 # 0
        THEN "ValueError: Resolution values must be even numbers"
    ELSE "ok"

(***************************************************************************)
(* generate_goodix_config, statement by statement.                         *)
(***************************************************************************)
new_config_187 == [raised |-> "none", buf |-> bytearray(187)]

\* config = bytearray(186), then the loop that zeroes it.
new_config == [raised |-> "none", buf |-> bytearray(186)]

touches_byte_no_floor(n) == py_min(n, 10)

\* min(max(1, num_touch_points), 10)
touches_byte(n) == py_min(py_max(1, n), 10)

\* filter_coefficient & 0xFF
filter_byte(f) == and_0xFF(f)

\* max(1, touch_threshold)
threshold_value(t) == py_max(1, t)

checksum_8_ones_complement(sum_8) == and_0xFF(invert(sum_8))

\* ((~sum_8) + 1) & 0xFF
checksum_8(sum_8) == and_0xFF(invert(sum_8) + 1)

\* The writes of lines 178-215, in order.
write_fields(x, y, t, n, f) ==
    LET s0 == setitem(new_config, 0, 1)
        s1 == pack_into_H(s0, 1, x)
        s2 == pack_into_H(s1, 3, y)
        s3 == setitem(s2, 5, touches_byte(n))
        s4 == setitem(s3, 6, 0)
        s5 == setitem(s4, 7, 0)
        s6 == setitem(s5, 8, 3)
        s7 == setitem(s6, 9, filter_byte(f))
        s8 == setitem(s7, 12, threshold_value(t))
        sum_8 == and_0xFF(sum_slice(s8.buf, 0, 184))
        s9 == setitem(s8, 184, checksum_8(sum_8))
    IN  setitem(s9, 185, 1)

\* The call: [raised, config]; config is NoConfig when nothing is returned.
generate_goodix_config(x, y, t, n, f) ==
    LET v == validate_resolution(x, y) IN
    IF v # "ok" THEN [raised |-> v, config |-> NoConfig]
    ELSE LET st == write_fields(x, y, t, n, f) IN
         IF st.raised # "none" THEN [raised |-> st.raised, config |-> NoConfig]
         ELSE [raised |-> "none", config |-> st.buf]

(***************************************************************************)
(* print_config_details: the reads of lines 226-256 in order, then the     *)
(* printed block.  A read past the end raises before anything is printed.  *)
(***************************************************************************)
\* The exception of the first read that fails, "none" if all succeed.
read_error(b) ==
    LET L == ByteLen(b) IN
    IF 0 \notin DOMAIN b THEN "IndexError"            \* config[0]
    ELSE IF L - 1 < 2 THEN "struct.error"             \* unpack_from at 1
    ELSE IF L - 3 < 2 THEN "struct.error"             \* unpack_from at 3
    ELSE IF \E i \in {5, 6, 7, 8, 9, 12, 184, 185} : i \notin DOMAIN b
        THEN "IndexError"
    ELSE "none"

print_config_details(b) ==
    IF read_error(b) # "none" THEN [raised |-> read_error(b)]
    ELSE [raised |-> "none",
          config_version |-> b[0],
          x_res |-> unpack_from_H(b, 1),
          y_res |-> unpack_from_H(b, 3),
          touches |-> b[5],
          mswitch1 |-> b[6],
          mswitch2 |-> b[7],
          shake |-> b[8],
          flt |-> b[9],
          threshold |-> b[12],
          csum |-> b[184],
          fresh |-> b[185]]

NothingPrinted == [raised |-> "nothing"]

(***************************************************************************)
(* Spec: one call of the encoder, then the decoder on what it returned.    *)
(***************************************************************************)
InitialPRESETS ==
    [name \in {"7inch", "5inch", "waveshare7"} |->
        CASE name = "7inch" ->
               [x_max |-> 1024, y_max |-> 600, touch_threshold |-> 16,
                num_touch_points |-> 5, filter_coefficient |-> 4]
          [] name = "5inch" ->
               [x_max |-> 800, y_max |-> 480, touch_threshold |-> 20,
                num_touch_points |-> 5, filter_coefficient |-> 4]
          [] name = "waveshare7" ->
               [x_max |-> 1280, y_max |-> 800, touch_threshold |-> 28,
                num_touch_points |-> 5, filter_coefficient |-> 4]]

\* The menu has not started: its state is what module import leaves.
MenuIdle ==
    /\ PRESETS = InitialPRESETS
    /\ settings = InitialPRESETS["7inch"]
    /\ settings_shared = FALSE
    /\ choices = 0

Init ==
    /\ x_max \in XValues
    /\ y_max \in YValues
    /\ touch_threshold \in ThresholdValues
    /\ num_touch_points \in TouchValues
    /\ filter_coefficient \in FilterValues
    /\ pc = "start"
    /\ raised = "none"
    /\ config = NoConfig
    /\ printed = NothingPrinted
    /\ MenuIdle

\* config = generate_goodix_config(x_max, y_max, touch_threshold,
\*                                 num_touch_points, filter_coefficient)
Encode ==
    /\ pc = "start"
    /\ LET r == generate_goodix_config(x_max, y_max, touch_threshold,
                                       num_touch_points, filter_coefficient)
       IN  /\ raised' = r.raised
           /\ config' = r.config
           /\ pc' = IF r.raised = "none" THEN "returned" ELSE "raised"
    /\ UNCHANGED <<codecVars, printed, menuVars>>

\* print_config_details(config) on the bytearray the encoder returned
Decode ==
    /\ pc = "returned"
    /\ printed' = print_config_details(config)
    /\ pc' = "printed"
    /\ UNCHANGED <<codecVars, raised, config, menuVars>>

Next == Encode \/ Decode

Spec == Init /\ [][Next]_vars

(***************************************************************************)
(* DecSpec: print_config_details on a bytearray of any length.             *)
(***************************************************************************)
\* Byte patterns filling the bytearrays handed to the decoder.
fill_byte(kind, i) == IF kind = "zero" THEN 0 ELSE (7 * i + 3) % 256

RawBuffers ==
    { [i \in 0..(len - 1) |-> fill_byte(kind, i)] :
        len \in 0..(186 + MaxExtra), kind \in {"zero", "ramp"} }

InitDec ==
    /\ x_max = 1024
    /\ y_max = 600
    /\ touch_threshold = 16
    /\ num_touch_points = 5
    /\ filter_coefficient = 4
    /\ pc = "start"
    /\ raised = "none"
    /\ config \in RawBuffers
    /\ printed = NothingPrinted
    /\ MenuIdle

\* print_config_details(config) on an arbitrary bytearray
DecodeRaw ==
    /\ pc = "start"
    /\ LET r == print_config_details(config)
       IN  /\ printed' = r
           /\ raised' = r.raised
           /\ pc' = IF r.raised = "none" THEN "printed" ELSE "raised"
    /\ UNCHANGED <<codecVars, config, menuVars>>

NextDec == DecodeRaw

DecSpec == InitDec /\ [][NextDec]_vars

(***************************************************************************)
(* MenuSpec: interactive_menu.  One action per menu choice; the action is  *)
(* the whole branch of the if/elif chain, the except clauses included.     *)
(***************************************************************************)
\* input(...).strip().lower() on the names typed
strip_lower(typed) ==
    CASE typed = " 5INCH " -> "5inch"
      [] typed = "WaveShare7" -> "waveshare7"
      [] OTHER -> typed

\* get_validated_input: the values it can return.  Empty input returns
\* current_val, a number in min_val..max_val is returned, anything else
\* is refused and the prompt repeats.
get_validated_input(min_val, max_val, current_val) ==
    {current_val} \cup {v \in TypedNumbers : min_val <= v /\ v <= max_val}

\* load_preset: the dict it returns and whether that dict is the object
\* PRESETS['7inch'] itself (line 375) or a copy (line 376).
load_preset(name) ==
    IF name \notin DOMAIN PRESETS
        THEN [shared |-> TRUE, dict |-> PRESETS["7inch"]]
    ELSE [shared |-> FALSE, dict |-> PRESETS[name]]

\* print_presets: the table it prints
print_presets == [kind |-> "presets", table |-> PRESETS]

MenuInit ==
    /\ x_max = 1024
    /\ y_max = 600
    /\ touch_threshold = 16
    /\ num_touch_points = 5
    /\ filter_coefficient = 4
    /\ pc = "menu"
    /\ raised = "none"
    /\ config = NoConfig
    /\ printed = NothingPrinted
    /\ PRESETS = InitialPRESETS
    /\ settings = InitialPRESETS["7inch"]     \* PRESETS['7inch'].copy()
    /\ settings_shared = FALSE
    /\ choices = 0

\* The loop prompts for another choice.
Prompt ==
    /\ pc = "menu"
    /\ choices < MaxChoices
    /\ choices' = choices + 1

\* settings[key] = value, through whatever object `settings` refers to
StoreSetting(key, value) ==
    /\ settings' = [settings EXCEPT ![key] = value]
    /\ PRESETS' = IF settings_shared
                      THEN [PRESETS EXCEPT !["7inch"][key] = value]
                      ELSE PRESETS

\* choice '1'
EditResolution ==
    /\ Prompt
    /\ \E x \in get_validated_input(2, 4094, settings.x_max) :
       \E y \in get_validated_input(2, 4094, settings.y_max) :
          /\ settings' = [settings EXCEPT !.x_max = x, !.y_max = y]
          /\ PRESETS' = IF settings_shared
                            THEN [PRESETS EXCEPT !["7inch"].x_max = x,
                                                 !["7inch"].y_max = y]
                            ELSE PRESETS
    /\ UNCHANGED <<codecVars, pc, raised, config, printed, settings_shared>>

\* choice '2'
EditThreshold ==
    /\ Prompt
    /\ \E v \in get_validated_input(1, 255, settings.touch_threshold) :
          StoreSetting("touch_threshold", v)
    /\ UNCHANGED <<codecVars, pc, raised, config, printed, settings_shared>>

\* choice '3'
EditTouchPoints ==
    /\ Prompt
    /\ \E v \in get_validated_input(1, 10, settings.num_touch_points) :
          StoreSetting("num_touch_points", v)
    /\ UNCHANGED <<codecVars, pc, raised, config, printed, settings_shared>>

\* choice '4'
EditFilter ==
    /\ Prompt
    /\ \E v \in get_validated_input(0, 15, settings.filter_coefficient) :
          StoreSetting("filter_coefficient", v)
    /\ UNCHANGED <<codecVars, pc, raised, config, printed, settings_shared>>

\* choice '5'
ShowPresets ==
    /\ Prompt
    /\ printed' = print_presets
    /\ UNCHANGED <<codecVars, pc, raised, config, PRESETS, settings,
                   settings_shared>>

\* choice '6'
LoadPreset ==
    /\ Prompt
    /\ \E typed \in TypedNames :
          LET r == load_preset(strip_lower(typed)) IN
          /\ settings' = r.dict
          /\ settings_shared' = r.shared
          /\ printed' = [kind |-> IF r.shared THEN "unknown preset"
                                              ELSE "presets",
                         table |-> PRESETS]
    /\ UNCHANGED <<codecVars, pc, raised, config, PRESETS>>

\* The call generate_goodix_config(**settings) of choices '7', '8', '9',
\* followed by what the branch reports on success: the printed details, or
\* the outcome of saving or installing.  A ValueError is caught by the
\* menu, which prints it and loops.
Generate(report) ==
    LET r == generate_goodix_config(settings.x_max, settings.y_max,
                                    settings.touch_threshold,
                                    settings.num_touch_points,
                                    settings.filter_coefficient)
    IN  /\ raised' = r.raised
        /\ config' = IF r.raised = "none" THEN r.config ELSE config
        /\ printed' = IF r.raised # "none"
                          THEN [kind |-> "error", message |-> r.raised]
                      ELSE IF report = "details"
                          THEN print_config_details(r.config)
                      ELSE [kind |-> report]

\* choice '7': save_config_file writes the file or reports the I/O error
GenerateSave ==
    /\ Prompt
    /\ \E report \in {"saved", "save error"} : Generate(report)
    /\ UNCHANGED <<codecVars, pc, PRESETS, settings, settings_shared>>

\* choice '8': install_config succeeds or fails with the system
GenerateInstall ==
    /\ Prompt
    /\ \E report \in {"Installation completed.", "Installation failed."} :
          Generate(report)
    /\ UNCHANGED <<codecVars, pc, PRESETS, settings, settings_shared>>

\* choice '9'
GenerateShow ==
    /\ Prompt
    /\ Generate("details")
    /\ UNCHANGED <<codecVars, pc, PRESETS, settings, settings_shared>>

\* choice '0'
Exit ==
    /\ Prompt
    /\ pc' = "exited"
    /\ printed' = [kind |-> "exiting"]
    /\ UNCHANGED <<codecVars, raised, config, PRESETS, settings,
                   settings_shared>>

\* any other choice
InvalidChoice ==
    /\ Prompt
    /\ printed' = [kind |-> "invalid choice"]
    /\ UNCHANGED <<codecVars, pc, raised, config, PRESETS, settings,
                   settings_shared>>

MenuNext ==
    \/ EditResolution
    \/ EditThreshold
    \/ EditTouchPoints
    \/ EditFilter
    \/ ShowPresets
    \/ LoadPreset
    \/ GenerateSave
    \/ GenerateInstall
    \/ GenerateShow
    \/ Exit
    \/ InvalidChoice

MenuSpec == MenuInit /\ [][MenuNext]_vars

(***************************************************************************)
(* Properties.                                                             *)
(***************************************************************************)
\* The encoder returned a bytearray (Spec).
Returned == pc \in {"returned", "printed"}

\* x_max and y_max are legal: in 1..4095 and twice some integer.
LegalValue(v) == v >= 1 /\ v <= 4095 /\ \E k \in 0..2047 : v = 2 * k
ResolutionLegal == LegalValue(x_max) /\ LegalValue(y_max)

ResolutionErrors ==
    {"ValueError: Resolution must be between 1 and 4095",
     "ValueError: Resolution values must be even numbers"}

Clamped(n) == IF n < 1 THEN 1 ELSE IF n > 10 THEN 10 ELSE n
Floored(t) == IF t < 1 THEN 1 ELSE t

\* The settings of the concrete 1024x600 scenario.
Scenario ==
    /\ x_max = 1024 /\ y_max = 600 /\ touch_threshold = 16
    /\ num_touch_points = 5 /\ filter_coefficient = 4

\* C1: in every bytearray the encoder returns, byte 184 is the two's
\* complement of S = (sum of bytes 0..183) mod 256, that is ((NOT S) + 1)
\* mod 256 with NOT the 8-bit complement, and bytes 0..184 sum to 0 mod 256.
C1_Checksum ==
    Returned =>
        LET S == sum_slice(config, 0, 184) % 256 IN
        /\ config[184] = ((255 - S) + 1) % 256
        /\ sum_slice(config, 0, 185) % 256 = 0

\* A returned bytearray whose bytes 0..183 sum past 255, checksum not 0.
C1_Witness ==
    /\ Returned
    /\ sum_slice(config, 0, 184) > 256
    /\ config[184] # 0

\* C2: decoding what the encoder returned recovers x_max and y_max exactly,
\* num_touch_points clamped into 1..10, filter_coefficient reduced to its
\* low 8 bits and touch_threshold floored at 1; and every settings value
\* with a legal resolution and a threshold in 1..255 is encoded and decoded.
C2_RoundTrip ==
    /\ pc = "printed" =>
         /\ printed.raised = "none"
         /\ printed.x_res = x_max
         /\ printed.y_res = y_max
         /\ printed.touches = Clamped(num_touch_points)
         /\ printed.flt \in 0..255
         /\ (filter_coefficient - printed.flt) % 256 = 0
         /\ printed.threshold = Floored(touch_threshold)
    /\ (ResolutionLegal /\ touch_threshold \in 1..255) => pc # "raised"

\* A decoded blob whose fields all needed their adjustment.
C2_Witness ==
    /\ pc = "printed"
    /\ x_max = 4094 /\ printed.x_res = 4094
    /\ y_max = 600 /\ printed.y_res = 600
    /\ num_touch_points = 15 /\ printed.touches = 10
    /\ filter_coefficient = 260 /\ printed.flt = 4
    /\ touch_threshold = 0 /\ printed.threshold = 1

\* C3: every bytearray the encoder returns has exactly the indices 0..185,
\* with 0x01 at offset 0 and 0x01 at offset 185; a call that does not
\* return produces no bytearray at all.
C3_Length ==
    /\ Returned =>
         /\ DOMAIN config = 0..185
         /\ ByteLen(config) = 186
         /\ config[0] = 1
         /\ config[185] = 1
    /\ pc \in {"start", "raised"} => config = NoConfig

\* A returned bytearray for the smallest legal resolution.
C3_Witness ==
    /\ Returned
    /\ x_max = 2
    /\ ByteLen(config) = 186
    /\ config[185] = 1

\* C4: the call fails with validate_resolution's error exactly when x_max or
\* y_max is outside 1..4095 or odd; then no bytearray exists.  x_max = 801
\* and x_max = 4096 fail, x_max = 4094 passes validation.
C4_Validation ==
    pc # "start" =>
        /\ (raised \in ResolutionErrors) <=> ~ResolutionLegal
        /\ (raised \in ResolutionErrors) => (pc = "raised" /\ config = NoConfig)
        /\ x_max \in {801, 4096} => raised \in ResolutionErrors
        /\ (x_max = 4094 /\ LegalValue(y_max)) => raised \notin ResolutionErrors

\* The odd x_max = 801 refused although y_max is legal.
C4_Witness ==
    /\ pc = "raised"
    /\ x_max = 801
    /\ y_max = 600
    /\ raised = "ValueError: Resolution values must be even numbers"
    /\ config = NoConfig

\* C5: for every x_max, y_max that pass validation and any integer
\* touch_threshold, num_touch_points and filter_coefficient, the encoder
\* returns a bytearray instead of failing.
C5_NoOtherError ==
    (pc # "start" /\ ResolutionLegal) => raised = "none"

\* C6: byte 12 is max(1, touch_threshold) mod 256 for every integer
\* touch_threshold: values of 256 and more wrap silently.
C6_ThresholdWraps ==
    (pc # "start" /\ ResolutionLegal) =>
        /\ Returned
        /\ config[12] = Floored(touch_threshold) % 256

\* C7: num_touch_points is clamped into 1..10 at offset 5 and is never the
\* reason for a refusal: whenever a bytearray is returned byte 5 is the
\* clamped value (0 stores 1, 15 stores 10), and with a legal resolution and
\* a threshold of at most 255 a bytearray is returned whatever
\* num_touch_points is.
C7_Clamp ==
    pc # "start" =>
        /\ Returned =>
             /\ config[5] = Clamped(num_touch_points)
             /\ num_touch_points = 0 => config[5] = 1
             /\ num_touch_points = 15 => config[5] = 10
        /\ (ResolutionLegal /\ touch_threshold <= 255) => Returned

\* num_touch_points = 15 stored as 10.
C7_Witness ==
    /\ Returned
    /\ num_touch_points = 15
    /\ config[5] = 10

\* C9: in every returned bytearray x_max is at offsets 1-2 and y_max at
\* offsets 3-4, low byte first; offsets 6 and 7 hold 0 and offset 8 holds 3;
\* offset 9 holds the low 8 bits of filter_coefficient; every byte of
\* 0..183 outside offsets 0,1,2,3,4,5,8,9,12 is zero.  The 1024x600
\* scenario is encoded, with the bytes the scenario lists and checksum 0x85.
C9_Layout ==
    /\ Returned =>
         /\ config[1] = x_max % 256 /\ config[2] = x_max \div 256
         /\ config[3] = y_max % 256 /\ config[4] = y_max \div 256
         /\ config[6] = 0 /\ config[7] = 0 /\ config[8] = 3
         /\ config[9] \in 0..255
         /\ (filter_coefficient - config[9]) % 256 = 0
         /\ \A i \in (0..183) \ {0, 1, 2, 3, 4, 5, 8, 9, 12} : config[i] = 0
    /\ (Scenario /\ pc # "start") =>
         /\ Returned
         /\ config[0] = 1
         /\ config[1] = 0 /\ config[2] = 4
         /\ config[3] = 88 /\ config[4] = 2
         /\ config[5] = 5 /\ config[8] = 3 /\ config[9] = 4
         /\ config[12] = 16
         /\ config[184] = 133
         /\ config[185] = 1

\* The scenario's bytearray, returned.
C9_Witness ==
    /\ Returned
    /\ Scenario
    /\ config[3] = 88
    /\ config[184] = 133

\* C8: the decoder accepts only bytearrays of exactly 186 bytes; a bytearray
\* of any other length, shorter or longer, makes it fail instead of
\* printing the fields.
C8_OnlyExactLength ==
    (pc # "start" /\ ByteLen(config) # 186) => raised # "none"

\* C10: whatever the menu choices, every entry of PRESETS keeps its initial
\* values.
C10_PresetsConstant == PRESETS = InitialPRESETS

====
